---- MODULE Spec2Model ----
(***************************************************************************)
(* A model of apex/contrib/optimizers/fused_adam.py: the host-side control *)
(* logic of FusedAdam (construction, the overflow register accessors,      *)
(* strided_check_finite, and step() with its forward and undo passes).     *)
(* The numeric kernels (adam, adam_undo, adam_mt, strided_check_finite)    *)
(* are external: the model records every invocation with its arguments and *)
(* lets each invocation decide nondeterministically whether it writes the  *)
(* overflow register.                                                      *)
(***************************************************************************)
EXTENDS Integers, Sequences, FiniteSets, TLC

(* ------------------------------ bounds -------------------------------- *)

\* most parameter groups an optimizer is constructed with
MaxGroups == 2
\* most parameters an optimizer holds, over all its groups
MaxTotalParams == 2
\* step() is not called once a step counter has reached this value, or its
\* negative
MaxStep == 2

(* -------------------------- program constants -------------------------- *)

\* 1e-6 of the clip ratio, as the denominator of the fraction 1/1000000
TinyDen == 1000000
\* amp_scale_adjustment, the constructor's default 1.0
AmpScaleAdjustment == 1

(* ------------------------------ values -------------------------------- *)

\* Python values that reach step(): None, a tensor (dense or sparse), a
\* number, a list and a one-shot generator. One record shape for all of them.
NoneT == [t |-> "None", id |-> 0, sparse |-> FALSE, items |-> <<>>]
Tensor(i, sp) == [t |-> "tensor", id |-> i, sparse |-> sp, items |-> <<>>]
Num(v) == [t |-> "num", id |-> v, sparse |-> FALSE, items |-> <<>>]
List(xs) == [t |-> "list", id |-> 0, sparse |-> FALSE, items |-> xs]
Generator(xs) == [t |-> "generator", id |-> 0, sparse |-> FALSE, items |-> xs]

\* [x] * n
Repeat(x, n) == [i \in 1..n |-> x]

Range(s) == {s[i] : i \in DOMAIN s}

Min(a, b) == IF a <= b THEN a ELSE b

(* ----------------------------- rationals ------------------------------ *)

\* The scale factors are floats in the program; the model computes them as
\* exact fractions n/d with d > 0, in lowest terms.
Abs(x) == IF x < 0 THEN -x ELSE x

RECURSIVE Gcd(_, _)
Gcd(a, b) == IF b = 0 THEN a ELSE Gcd(b, a % b)

Rat(n, d) ==
    LET g == Gcd(Abs(n), Abs(d))
        s == IF d < 0 THEN -1 ELSE 1
    IN  [n |-> (s * n) \div g, d |-> (s * d) \div g]

RatInt(i) == [n |-> i, d |-> 1]
RatAdd(a, b) == Rat(a.n * b.d + b.n * a.d, a.d * b.d)
RatMul(a, b) == Rat(a.n * b.n, a.d * b.d)
RatDiv(a, b) == Rat(a.n * b.d, a.d * b.n)
RatGt(a, b) == a.n * b.d > b.n * a.d

(* ------------------------------- state -------------------------------- *)

VARIABLES
    constructed,        \* "no" before __init__, "yes" once it returned, "failed" if it raised
    use_multi_tensor,   \* self._use_multi_tensor
    allow_undo,         \* self._allow_undo
    overflow_buf,       \* self._overflow_buf, the device-resident overflow register
    param_groups,       \* self.param_groups
    state,              \* self.state, per parameter
    amp_stash,          \* self._amp_stash, when the attribute is present
    last                \* the last operation performed, with its arguments and result

vars == <<constructed, use_multi_tensor, allow_undo, overflow_buf,
          param_groups, state, amp_stash, last>>

\* The sizes of the parameter groups an optimizer can be constructed with.
RECURSIVE SumSeq(_)
SumSeq(s) == IF s = <<>> THEN 0 ELSE s[1] + SumSeq(Tail(s))

GroupShapes ==
    {s \in UNION {[1..n -> 1..MaxTotalParams] : n \in 1..MaxGroups} :
        SumSeq(s) <= MaxTotalParams}

\* Parameters are numbered 1, 2, ... in the order of the groups.
ParamsOfGroup(shape, g) ==
    [k \in 1..shape[g] |-> SumSeq(SubSeq(shape, 1, g - 1)) + k]

\* A parameter group: its parameters and its hyperparameters. hyper stands
\* for the group's lr, eps, weight_decay and bias_correction; betas for its
\* (beta1, beta2). Both are identified by the group's index.
MakeGroups(shape, mgn) ==
    [g \in 1..Len(shape) |->
        [params |-> ParamsOfGroup(shape, g),
         max_grad_norm |-> mgn[g],
         hyper |-> g,
         betas |-> g]]

AllParams == UNION {Range(param_groups[g].params) : g \in DOMAIN param_groups}

NoState == [exists |-> FALSE, step |-> 0]

NoStash == [present |-> FALSE, grads |-> NoneT, output_params |-> NoneT,
            scale |-> RatInt(1), grad_norms |-> NoneT]

Init ==
    /\ constructed = "no"
    /\ use_multi_tensor = FALSE
    /\ allow_undo = FALSE
    /\ overflow_buf = 0
    /\ param_groups = <<>>
    /\ state = <<>>
    /\ amp_stash = NoStash
    /\ last = [op |-> "none"]

(* ---------------------------- construction ---------------------------- *)

\* InitError without the assertion of line 72.
InitErrorNoAssert(use_mt, undo, amsgrad, available) ==
    IF amsgrad THEN "RuntimeError" ELSE "none"

\* __init__: the error it raises, "none" when it returns.
InitError(use_mt, undo, amsgrad, available) ==
    IF amsgrad THEN "RuntimeError"
    ELSE IF (use_mt /\ available) /\ undo THEN "AssertionError"
    ELSE "none"

\* __init__(params, ..., max_grad_norm, amsgrad, use_mt, allow_undo), with
\* multi_tensor_applier.available as the environment reports it.
Construct(shape, mgn, use_mt, undo, amsgrad, available) ==
    /\ constructed = "no"
    /\ LET err == InitError(use_mt, undo, amsgrad, available)
       IN  /\ last' = [op |-> "construct", use_mt |-> use_mt, allow_undo |-> undo,
                       amsgrad |-> amsgrad, available |-> available, error |-> err]
           /\ IF err = "none"
              THEN /\ constructed' = "yes"
                   /\ use_multi_tensor' = (use_mt /\ available)
                   /\ allow_undo' = undo
                   /\ overflow_buf' = 0
                   /\ param_groups' = MakeGroups(shape, mgn)
                   /\ state' = [p \in 1..SumSeq(shape) |-> NoState]
              ELSE /\ constructed' = "failed"
                   /\ UNCHANGED <<use_multi_tensor, allow_undo, overflow_buf,
                                  param_groups, state>>
    /\ UNCHANGED amp_stash

(* ------------------------ the overflow register ----------------------- *)

\* HasOverflow without the zero_() of line 80.
HasOverflowKeeps ==
    /\ constructed = "yes"
    /\ last' = [op |-> "has_overflow", ret |-> overflow_buf]
    /\ UNCHANGED <<constructed, use_multi_tensor, allow_undo, overflow_buf,
                   param_groups, state, amp_stash>>

\* has_overflow: returns the register and zeroes it.
HasOverflow ==
    /\ constructed = "yes"
    /\ last' = [op |-> "has_overflow", ret |-> overflow_buf]
    /\ overflow_buf' = 0
    /\ UNCHANGED <<constructed, use_multi_tensor, allow_undo, param_groups,
                   state, amp_stash>>

\* PeekOverflow with the zero_() of has_overflow.
PeekOverflowClears ==
    /\ constructed = "yes"
    /\ last' = [op |-> "peek_overflow", ret |-> overflow_buf]
    /\ overflow_buf' = 0
    /\ UNCHANGED <<constructed, use_multi_tensor, allow_undo, param_groups,
                   state, amp_stash>>

\* peek_overflow: returns the register.
PeekOverflow ==
    /\ constructed = "yes"
    /\ last' = [op |-> "peek_overflow", ret |-> overflow_buf]
    /\ UNCHANGED <<constructed, use_multi_tensor, allow_undo, overflow_buf,
                   param_groups, state, amp_stash>>

\* The strided_check_finite kernel on the register: cleared first when asked
\* to, then set when a scanned value is not finite.
CheckFiniteKernel(buf, clear, nonfinite) ==
    IF nonfinite THEN 1 ELSE IF clear THEN 0 ELSE buf

\* strided_check_finite(output_params, stride, start, end, clear): the
\* slice it scans holds a non-finite value or not.
StridedCheckFinite(clear, nonfinite) ==
    /\ constructed = "yes"
    /\ overflow_buf' = CheckFiniteKernel(overflow_buf, clear, nonfinite)
    /\ last' = [op |-> "strided_check_finite", clear |-> clear]
    /\ UNCHANGED <<constructed, use_multi_tensor, allow_undo, param_groups,
                   state, amp_stash>>

(* ------------------------------- step --------------------------------- *)

\* What the kernels and the state store are handed: p.data and the two
\* moment buffers of parameter p, and the empty tensor of line 195.
ParamData(p) == [t |-> "param", id |-> p, sparse |-> FALSE, items |-> <<>>]
ExpAvg(p) == [t |-> "exp_avg", id |-> p, sparse |-> FALSE, items |-> <<>>]
ExpAvgSq(p) == [t |-> "exp_avg_sq", id |-> p, sparse |-> FALSE, items |-> <<>>]
EmptyTensor == [t |-> "empty", id |-> 0, sparse |-> FALSE, items |-> <<>>]

\* One entry of the record of a step() call: the zeroing of the register
\* ("zero"), the calls of _step ("forward", "undo"), the closure's
\* evaluation ("closure"), the read of the register that decides the undo
\* ("peek"), a state initialisation ("state_init") and the kernel
\* invocations ("adam", "adam_undo", "adam_mt") with their arguments.
Ev(k) == [k |-> k, p |-> 0, grad |-> NoneT, out |-> NoneT, hyper |-> 0,
          betas |-> 0, combined_scale |-> RatInt(0), step |-> 0,
          lists |-> <<>>, wrote |-> FALSE]

\* The local variables and the object state of a running _step: self.state,
\* the register, the record of the call, how far the gradient and the output
\* generators have been consumed, the pending exception, the loss, the
\* parameter whose state the local `state` is bound to and the group whose
\* betas the locals beta1, beta2 hold (0: unbound), tensorlists, and what
\* the calls of _step have returned so far (line 257).
Env0(st, buf) ==
    [state |-> st, buf |-> buf, log |-> <<>>, gpos |-> 0, opos |-> 0,
     err |-> "none", loss |-> FALSE, lstate |-> 0, lbetas |-> 0, tl |-> <<>>,
     rets |-> <<>>]

\* Line 257: return None if undo else loss.
Return(e, undo) ==
    IF e.err # "none" THEN e
    ELSE [e EXCEPT !.rets = Append(@, IF ~undo /\ e.loss THEN "loss" ELSE "None")]

Fail(e, err) == [e EXCEPT !.err = err]

\* NormalizeArg without the wrapping of a flat list (lines 126-127, 135-136).
NormalizeArgNoWrap(arg, ngroups) ==
    IF arg.t = "None" THEN [err |-> "none", v |-> Repeat(NoneT, ngroups)]
    ELSE IF arg.t = "generator" THEN [err |-> "none", v |-> <<arg>>]
    ELSE IF arg.items = <<>> THEN [err |-> "IndexError", v |-> <<>>]
    ELSE [err |-> "none", v |-> arg.items]

\* Lines 120-129 and 131-138: the per-group list of an argument of step().
NormalizeArg(arg, ngroups) ==
    IF arg.t = "None" THEN [err |-> "none", v |-> Repeat(NoneT, ngroups)]
    ELSE IF arg.t = "generator" THEN [err |-> "none", v |-> <<arg>>]
    ELSE IF arg.items = <<>> THEN [err |-> "IndexError", v |-> <<>>]
    ELSE IF arg.items[1].t # "list" THEN [err |-> "none", v |-> <<arg>>]
    ELSE [err |-> "none", v |-> arg.items]

\* CombinedScale without the 1e-6 of line 153.
CombinedScaleNoTiny(group, scale, grad_norm) ==
    IF group.max_grad_norm > 0
    THEN IF grad_norm.t # "num" THEN [err |-> "TypeError", v |-> scale]
         ELSE LET clip == RatDiv(RatDiv(RatInt(grad_norm.id), scale),
                                 RatInt(group.max_grad_norm))
              IN  IF RatGt(clip, RatInt(1))
                  THEN [err |-> "none", v |-> RatMul(clip, scale)]
                  ELSE [err |-> "none", v |-> scale]
    ELSE [err |-> "none", v |-> scale]

\* Lines 149-155: the combined scale factor of a group.
CombinedScale(group, scale, grad_norm) ==
    IF group.max_grad_norm > 0
    THEN IF grad_norm.t # "num" THEN [err |-> "TypeError", v |-> scale]
         ELSE LET clip == RatDiv(RatAdd(RatDiv(RatInt(grad_norm.id), scale),
                                        Rat(1, TinyDen)),
                                 RatInt(group.max_grad_norm))
              IN  IF RatGt(clip, RatInt(1))
                  THEN [err |-> "none", v |-> RatMul(clip, scale)]
                  ELSE [err |-> "none", v |-> scale]
    ELSE [err |-> "none", v |-> scale]

\* Lines 187-192: the step counter after the pass, and the step value the
\* kernel is handed.
StepAfter(undo, s) == IF undo THEN s - 1 ELSE s + 1
StepArg(undo, s) == IF undo THEN s ELSE s + 1

\* Lines 204-240: the per-parameter kernel invocation.
KernelCall(e, group, p, grad, out_p, cs, step, c) ==
    IF c.undo
    THEN [e EXCEPT !.log = Append(@,
              [Ev("adam_undo") EXCEPT !.p = p, !.grad = grad,
                   !.hyper = group.hyper, !.betas = e.lbetas,
                   !.combined_scale = cs, !.step = step])]
    ELSE [e EXCEPT !.log = Append(@,
              [Ev("adam") EXCEPT !.p = p, !.grad = grad, !.out = out_p,
                   !.hyper = group.hyper, !.betas = e.lbetas,
                   !.combined_scale = cs, !.step = step,
                   !.wrote = (p \in c.ovf)]),
                    !.buf = IF p \in c.ovf THEN 1 ELSE @]

\* Lines 196-202: the parameter's tensors appended to tensorlists.
AppendLists(e, p, grad, output_param, out_p) ==
    LET pl == <<ParamData(p), ExpAvg(p), ExpAvgSq(p), grad>>
              \o (IF output_param.t # "None" THEN <<out_p>> ELSE <<>>)
    IN  [e EXCEPT !.tl = [i \in DOMAIN @ |->
                             IF i <= Len(pl) THEN Append(@[i], pl[i]) ELSE @[i]]]

\* Lines 167-240: the body of the parameter loop for parameter p.
ParamBody(e, group, p, grad, output_param, cs, c) ==
    IF c.attached[p].t = "None" /\ grad.t = "None" THEN e
    ELSE LET gr == IF grad.t = "None" THEN c.attached[p] ELSE grad
         IN  IF gr.t # "tensor" THEN Fail(e, "AttributeError")
             ELSE IF gr.sparse THEN Fail(e, "RuntimeError")
             ELSE
               LET fresh == ~e.state[p].exists
                   s0 == IF fresh THEN 0 ELSE e.state[p].step
                   e1 == [e EXCEPT
                            !.log = IF fresh
                                    THEN Append(@, [Ev("state_init") EXCEPT !.p = p])
                                    ELSE @,
                            !.state[p] = [exists |-> TRUE,
                                          step |-> StepAfter(c.undo, s0)],
                            !.lstate = p,
                            !.lbetas = group.betas]
                   out_p == IF output_param.t = "None" THEN EmptyTensor
                            ELSE output_param
               IN  IF use_multi_tensor
                   THEN AppendLists(e1, p, gr, output_param, out_p)
                   ELSE KernelCall(e1, group, p, gr, out_p, cs,
                                   StepArg(c.undo, s0), c)

\* Whether zip can draw no further item from xs: a list is read by position,
\* a generator from where its last reader left it.
Exhausted(xs, k, pos) ==
    IF xs.t = "generator" THEN pos >= Len(xs.items) ELSE k > Len(xs.items)
Item(xs, k, pos) ==
    IF xs.t = "generator" THEN xs.items[pos + 1] ELSE xs.items[k]

\* Line 165: zip(group['params'], grads_this_group, output_params_this_group).
RECURSIVE ParamLoop(_, _, _, _, _, _, _)
ParamLoop(e, group, k, gtg, otg, cs, c) ==
    IF e.err # "none" \/ k > Len(group.params) THEN e
    ELSE IF Exhausted(gtg, k, e.gpos) THEN e
    ELSE LET grad == Item(gtg, k, e.gpos)
             eg == IF gtg.t = "generator" THEN [e EXCEPT !.gpos = @ + 1] ELSE e
         IN  IF Exhausted(otg, k, eg.opos) THEN eg
             ELSE LET out == Item(otg, k, eg.opos)
                      eo == IF otg.t = "generator"
                            THEN [eg EXCEPT !.opos = @ + 1] ELSE eg
                  IN  ParamLoop(ParamBody(eo, group, group.params[k], grad, out, cs, c),
                                group, k + 1, gtg, otg, cs, c)

\* Lines 242-255: the batched kernel invocation that ends a group. beta1,
\* beta2 and state are the locals the parameter loop last bound.
MultiTensorApply(e, group, cs, c) ==
    IF e.lbetas = 0 THEN Fail(e, "UnboundLocalError")
    ELSE LET hit == \E i \in DOMAIN e.tl[1] : e.tl[1][i].id \in c.ovf
         IN  [e EXCEPT !.log = Append(@,
                  [Ev("adam_mt") EXCEPT !.p = e.lstate, !.lists = e.tl,
                       !.hyper = group.hyper, !.betas = e.lbetas,
                       !.combined_scale = cs, !.step = e.state[e.lstate].step,
                       !.wrote = hit]),
                        !.buf = IF hit THEN 1 ELSE @]

\* Lines 143-255: zip(self.param_groups, grads_group, output_params_group,
\* grad_norms), groups i..n.
RECURSIVE GroupLoop(_, _, _, _, _, _, _)
GroupLoop(e, i, n, gg, og, gn, c) ==
    IF e.err # "none" \/ i > n THEN e
    ELSE
      LET group == param_groups[i]
          np == Len(group.params)
          gtg == IF gg[i].t = "None" THEN List(Repeat(NoneT, np)) ELSE gg[i]
          otg == IF og[i].t = "None" THEN List(Repeat(NoneT, np)) ELSE og[i]
          csr == CombinedScale(group, c.scale, gn[i])
      IN  IF csr.err # "none" THEN Fail(e, csr.err)
          ELSE IF gtg.t \notin {"list", "generator"} \/ otg.t \notin {"list", "generator"}
          THEN Fail(e, "TypeError")
          ELSE
            LET e1 == IF use_multi_tensor
                      THEN [e EXCEPT !.tl = Repeat(<<>>, IF c.five THEN 5 ELSE 4)]
                      ELSE e
                e2 == ParamLoop(e1, group, 1, gtg, otg, csr.v, c)
                e3 == IF e2.err = "none" /\ use_multi_tensor
                      THEN MultiTensorApply(e2, group, csr.v, c)
                      ELSE e2
            IN  GroupLoop(e3, i + 1, n, gg, og, gn, c)

\* Enter that evaluates the closure in the undo pass as well.
EnterClosureAlways(e, closure, undo) ==
    LET f == [e EXCEPT !.lstate = 0, !.lbetas = 0]
    IN  [f EXCEPT !.loss = closure,
                  !.log = IF closure THEN Append(@, Ev("closure")) ELSE @]

\* Lines 109-112: a forward pass binds loss, to the closure's value when a
\* closure is given; the locals state, beta1 and beta2 start unbound.
Enter(e, closure, undo) ==
    LET f == [e EXCEPT !.lstate = 0, !.lbetas = 0]
    IN  IF undo THEN f
        ELSE [f EXCEPT !.loss = closure,
                       !.log = IF closure THEN Append(@, Ev("closure")) ELSE @]

\* Lines 114-118: the arguments _step works on, the stash's when present.
EffectiveArgs(grads, output_params, scale, grad_norms) ==
    IF amp_stash.present
    THEN [grads |-> amp_stash.grads, output_params |-> amp_stash.output_params,
          scale |-> RatMul(amp_stash.scale, RatInt(AmpScaleAdjustment)),
          grad_norms |-> amp_stash.grad_norms]
    ELSE [grads |-> grads, output_params |-> output_params, scale |-> scale,
          grad_norms |-> grad_norms]

\* _step(closure, grads, output_params, scale, grad_norms, undo), run from
\* e with fresh locals; attached is p.grad of every parameter and ovf the
\* parameters whose forward kernel invocation finds a non-finite value.
StepPass(e, closure, grads, output_params, scale, grad_norms, undo, attached, ovf) ==
    IF undo /\ ~allow_undo THEN Fail(e, "AssertionError")
    ELSE IF undo /\ use_multi_tensor THEN Fail(e, "AssertionError")
    ELSE
      LET e1 == Enter(e, closure, undo)
          a == EffectiveArgs(grads, output_params, scale, grad_norms)
          ng == Len(param_groups)
          gg == NormalizeArg(a.grads, ng)
          og == NormalizeArg(a.output_params, ng)
          gn == IF a.grad_norms.t = "None" THEN Repeat(NoneT, ng)
                ELSE a.grad_norms.items
          c == [undo |-> undo, scale |-> a.scale, ovf |-> ovf,
                attached |-> attached, five |-> (a.output_params.t # "None")]
      IN  IF gg.err # "none" THEN Fail(e1, gg.err)
          ELSE IF og.err # "none" THEN Fail(e1, og.err)
          ELSE Return(GroupLoop(e1, 1,
                                Min(Min(ng, Len(gg.v)), Min(Len(og.v), Len(gn))),
                                gg.v, og.v, gn, c),
                      undo)

\* StepRunFrom without the zero_() of line 274.
StepRunFromNoZero(st, closure, grads, output_params, scale, grad_norms, attached, ovf) ==
    LET e0 == [Env0(st, overflow_buf) EXCEPT !.log = <<Ev("zero"), Ev("forward")>>]
        e1 == StepPass(e0, closure, grads, output_params, scale, grad_norms,
                       FALSE, attached, ovf)
    IN  IF e1.err # "none" \/ ~allow_undo THEN e1
        ELSE LET e2 == [e1 EXCEPT !.log = Append(@, Ev("peek"))]
             IN  IF e2.buf # 0
                 THEN StepPass([e2 EXCEPT !.log = Append(@, Ev("undo"))],
                               closure, grads, output_params, scale,
                               grad_norms, TRUE, attached, ovf)
                 ELSE e2

\* StepRunFrom that runs the undo pass on an overflow whether undo is enabled
\* or not.
StepRunFromUndoAlways(st, closure, grads, output_params, scale, grad_norms, attached, ovf) ==
    LET e0 == [Env0(st, 0) EXCEPT !.log = <<Ev("zero"), Ev("forward")>>]
        e1 == StepPass(e0, closure, grads, output_params, scale, grad_norms,
                       FALSE, attached, ovf)
    IN  IF e1.err # "none" THEN e1
        ELSE LET e2 == [e1 EXCEPT !.log = Append(@, Ev("peek"))]
             IN  IF e2.buf # 0
                 THEN StepPass([e2 EXCEPT !.log = Append(@, Ev("undo"))],
                               closure, grads, output_params, scale,
                               grad_norms, TRUE, attached, ovf)
                 ELSE e2

\* Lines 274-278: step(closure, grads, output_params, scale, grad_norms),
\* run on an optimizer whose per-parameter state is st.
StepRunFrom(st, closure, grads, output_params, scale, grad_norms, attached, ovf) ==
    LET e0 == [Env0(st, 0) EXCEPT !.log = <<Ev("zero"), Ev("forward")>>]
        e1 == StepPass(e0, closure, grads, output_params, scale, grad_norms,
                       FALSE, attached, ovf)
    IN  IF e1.err # "none" \/ ~allow_undo THEN e1
        ELSE LET e2 == [e1 EXCEPT !.log = Append(@, Ev("peek"))]
             IN  IF e2.buf # 0
                 THEN StepPass([e2 EXCEPT !.log = Append(@, Ev("undo"))],
                               closure, grads, output_params, scale,
                               grad_norms, TRUE, attached, ovf)
                 ELSE e2

StepRun(closure, grads, output_params, scale, grad_norms, attached, ovf) ==
    StepRunFrom(state, closure, grads, output_params, scale, grad_norms,
                attached, ovf)

\* step() as one operation. last keeps the call's arguments, the state and
\* the register it started from, and the record of what it did.
Step(closure, grads, output_params, scale, grad_norms, attached, ovf) ==
    /\ constructed = "yes"
    /\ \A p \in DOMAIN state : state[p].step < MaxStep /\ state[p].step > -MaxStep
    /\ LET r == StepRun(closure, grads, output_params, scale, grad_norms,
                        attached, ovf)
       IN  /\ state' = r.state
           /\ overflow_buf' = r.buf
           /\ last' = [op |-> "step", closure |-> closure, grads |-> grads,
                       output_params |-> output_params, scale |-> scale,
                       grad_norms |-> grad_norms, attached |-> attached,
                       pre |-> state, pre_buf |-> overflow_buf,
                       log |-> r.log, rets |-> r.rets, error |-> r.err]
    /\ UNCHANGED <<constructed, use_multi_tensor, allow_undo, param_groups,
                   amp_stash>>

\* Line 114: the mixed-precision wrapper gives the optimizer an _amp_stash
\* attribute, whose values _step then takes in place of its arguments.
SetAmpStash(grads, output_params, scale, grad_norms) ==
    /\ constructed = "yes"
    /\ ~amp_stash.present
    /\ amp_stash' = [present |-> TRUE, grads |-> grads,
                     output_params |-> output_params, scale |-> scale,
                     grad_norms |-> grad_norms]
    /\ last' = [op |-> "amp_stash"]
    /\ UNCHANGED <<constructed, use_multi_tensor, allow_undo, overflow_buf,
                   param_groups, state>>

(* ------------------------- the caller's inputs ------------------------- *)

\* p.grad of every parameter when step() is called: absent, dense or
\* sparse. The attached gradient of parameter p is tensor p.
AttachedGrads ==
    [DOMAIN state -> {"None", "dense", "sparse"}]
Attached(kinds) ==
    [p \in DOMAIN kinds |-> IF kinds[p] = "None" THEN NoneT
                            ELSE Tensor(p, kinds[p] = "sparse")]

\* The gradients a caller supplies, one per parameter: all dense or absent,
\* or one of them sparse. The gradient supplied for parameter p is tensor -p.
SuppliedGrads ==
    {w \in [DOMAIN state -> {"None", "dense", "sparse"}] :
        Cardinality({p \in DOMAIN w : w[p] = "sparse"}) <= 1
        /\ ((\E p \in DOMAIN w : w[p] = "sparse")
               => \A p \in DOMAIN w : w[p] # "None")}
Supplied(kinds) ==
    [p \in DOMAIN kinds |-> IF kinds[p] = "None" THEN NoneT
                            ELSE Tensor(-p, kinds[p] = "sparse")]

\* The output buffers a caller supplies: the buffer for parameter p, for the
\* parameters of has.
OutBuf(p) == [t |-> "out", id |-> p, sparse |-> FALSE, items |-> <<>>]
OutBufs(has) == [p \in DOMAIN has |-> IF has[p] THEN OutBuf(p) ELSE NoneT]

\* The three shapes of an argument holding x[p] for every parameter p, and
\* a one-shot generator over them.
Flat(x) == List([p \in DOMAIN x |-> x[p]])
Nested(x) ==
    List([g \in DOMAIN param_groups |->
            List([k \in DOMAIN param_groups[g].params |->
                     x[param_groups[g].params[k]]])])
Gen(x) == Generator([p \in DOMAIN x |-> x[p]])
\* The same with the last element, or the last group's list, left out.
ShortFlat(x) == List([p \in 1..(Len(x) - 1) |-> x[p]])
ShortNested(x) == List(SubSeq(Nested(x).items, 1, Len(param_groups) - 1))

AllOf(kind) == [p \in DOMAIN state |-> kind]

\* The gradients of a step() call: the attached ones alone; supplied ones
\* in every shape with nothing attached; supplied ones that do not cover
\* the optimizer's structure with a gradient attached to every parameter.
GradCases ==
    {[attached |-> Attached(a), grads |-> NoneT] : a \in AttachedGrads}
    \cup {[attached |-> Attached(AllOf("None")), grads |-> f] :
            f \in UNION {{Flat(Supplied(w)), Nested(Supplied(w)), Gen(Supplied(w))} :
                            w \in SuppliedGrads}}
    \cup {[attached |-> Attached(AllOf("dense")), grads |-> f] :
            f \in {Flat(Supplied(AllOf("dense"))),
                   ShortFlat(Supplied(AllOf("dense"))),
                   ShortNested(Supplied(AllOf("dense")))}}

\* The parameters the forward kernel invocations of a call's record work
\* on: the invocations that can find a non-finite value.
TargetsOf(log) ==
    {log[i].p : i \in {j \in DOMAIN log : log[j].k = "adam"}}
    \cup UNION {{log[i].lists[1][n].id : n \in DOMAIN log[i].lists[1]} :
                   i \in {j \in DOMAIN log : log[j].k = "adam_mt"}}
KernelTargets(closure, grads, output_params, scale, grad_norms, attached) ==
    TargetsOf(StepRun(closure, grads, output_params, scale, grad_norms,
                      attached, {}).log)

(* --------------------------- specification ---------------------------- *)

\* step() reads nothing of the record of the last operation, so the calls
\* it can make from one state of the optimizer are explored once: from the
\* state in which the caller has just constructed the optimizer, peeked at
\* the register, which changes nothing of the optimizer, or attached a stash.
CallerReady == last.op \in {"construct", "peek_overflow", "amp_stash"}

\* An optimizer whose groups do no gradient clipping (max_grad_norm = 0,
\* the default), stepped with scale 1 and no closure, output buffers or
\* gradient norms.
NoClip(shape) == [g \in DOMAIN shape |-> 0]

Next ==
    \/ \E shape \in GroupShapes, use_mt, undo, amsgrad, available \in BOOLEAN :
          Construct(shape, NoClip(shape), use_mt, undo, amsgrad, available)
    \/ HasOverflow
    \/ PeekOverflow
    \/ \E clear, nonfinite \in BOOLEAN : StridedCheckFinite(clear, nonfinite)
    \/ /\ CallerReady
       /\ \E gc \in GradCases :
          \E targets \in {KernelTargets(FALSE, gc.grads, NoneT, RatInt(1), NoneT,
                                        gc.attached)} :
             \E ovf \in SUBSET targets :
                Step(FALSE, gc.grads, NoneT, RatInt(1), NoneT, gc.attached, ovf)

Spec == Init /\ [][Next]_vars

\* The same optimizer with gradient clipping: groups whose max_grad_norm is
\* negative, zero or positive, stepped on dense attached gradients with a
\* scale and with the groups' gradient norms, or none; the kernels of a
\* step find a non-finite value in all of their parameters or in none.
ClipNorms == {-1, 0, 1}
Scales == {RatInt(1), RatInt(2)}
GradNormArgs ==
    {NoneT} \cup {List([g \in DOMAIN param_groups |-> Num(v[g])]) :
                    v \in [DOMAIN param_groups -> {1, 3}]}

NextScale ==
    \/ \E shape \in GroupShapes, use_mt, undo \in BOOLEAN :
          \E mgn \in [DOMAIN shape -> ClipNorms] :
             Construct(shape, mgn, use_mt, undo, FALSE, TRUE)
    \/ PeekOverflow
    \/ /\ CallerReady
       /\ \E scale \in Scales, gn \in GradNormArgs :
          \E targets \in {KernelTargets(FALSE, NoneT, NoneT, scale, gn,
                                        Attached(AllOf("dense")))} :
             \E ovf \in {{}, targets} :
                Step(FALSE, NoneT, NoneT, scale, gn, Attached(AllOf("dense")), ovf)

SpecScale == Init /\ [][NextScale]_vars

(* ------------------- what a step() call is seen to do ------------------ *)

StepDone == last.op = "step"
StepReturned == StepDone /\ last.error = "none"
\* the entries of kind k in the record of the call, and those for parameter p
Entries(k) == {i \in DOMAIN last.log : last.log[i].k = k}
Calls(k, p) == {i \in Entries(k) : last.log[i].p = p}
\* a forward kernel invocation of the call set the register
KernelWrote == \E i \in DOMAIN last.log : last.log[i].wrote
\* parameter p is in one of the tensor lists of a batched invocation
InBatch(p) ==
    \E i \in Entries("adam_mt") :
       \E l \in DOMAIN last.log[i].lists :
          \E n \in DOMAIN last.log[i].lists[l] :
             last.log[i].lists[l][n].t = "param" /\ last.log[i].lists[l][n].id = p

\* The group of parameter p and its place in the group.
GroupOf(p) == CHOOSE g \in DOMAIN param_groups : p \in Range(param_groups[g].params)
PlaceOf(p) == CHOOSE k \in DOMAIN param_groups[GroupOf(p)].params :
                 param_groups[GroupOf(p)].params[k] = p
IsFlat(a) == a.t = "list" /\ a.items # <<>> /\ a.items[1].t # "list"
IsNested(a) == a.t = "list" /\ a.items # <<>> /\ a.items[1].t = "list"

\* The gradient a caller supplies for parameter p: in a nested list the
\* element at p's place in the list of p's group; a flat list or a generator
\* stands for a single group (lines 122-127), so it supplies the gradients of
\* the first group's parameters.
SuppliedFor(a, p) ==
    IF IsNested(a)
    THEN IF GroupOf(p) <= Len(a.items) /\ a.items[GroupOf(p)].t = "list"
            /\ PlaceOf(p) <= Len(a.items[GroupOf(p)].items)
         THEN a.items[GroupOf(p)].items[PlaceOf(p)] ELSE NoneT
    ELSE IF IsFlat(a) \/ a.t = "generator"
    THEN IF GroupOf(p) = 1 /\ PlaceOf(p) <= Len(a.items)
         THEN a.items[PlaceOf(p)] ELSE NoneT
    ELSE NoneT

\* The gradients and output buffers the last step() call worked on: the
\* stash's when there is one (lines 114-116).
GradsOfCall == IF amp_stash.present THEN amp_stash.grads ELSE last.grads
OutputsOfCall ==
    IF amp_stash.present THEN amp_stash.output_params ELSE last.output_params

\* The gradient of parameter p in the last step() call: the supplied one,
\* the attached one when none is supplied.
GradientOf(p) ==
    IF SuppliedFor(GradsOfCall, p).t # "None" THEN SuppliedFor(GradsOfCall, p)
    ELSE last.attached[p]

(* ------------------------------- claims ------------------------------- *)

\* C1: with allow_undo (per-parameter mode), when a step() in which a forward
\* kernel invocation set the overflow register returns, every step counter
\* has its value from before the call, every parameter that received a
\* forward adam invocation received exactly one adam_undo invocation, and
\* the register is still set.
C1_UndoRestoresCounters ==
    (StepReturned /\ allow_undo /\ ~use_multi_tensor /\ KernelWrote) =>
        /\ \A p \in DOMAIN state : state[p].step = last.pre[p].step
        /\ \A p \in DOMAIN state :
              Calls("adam", p) # {} => Cardinality(Calls("adam_undo", p)) = 1
        /\ overflow_buf # 0

\* C2: when a step() in which no kernel invocation set the register returns,
\* the counter of every parameter with a gradient (supplied or attached) is
\* one higher than before, the state of every parameter without a gradient
\* is unchanged, and no undo was issued.
C2_StepAdvancesCounters ==
    (StepReturned /\ ~KernelWrote) =>
        /\ \A p \in DOMAIN state :
              IF GradientOf(p).t # "None"
              THEN state[p].exists /\ state[p].step = last.pre[p].step + 1
              ELSE state[p] = last.pre[p]
        /\ Entries("undo") = {} /\ Entries("adam_undo") = {}

\* C3: the first read of the register of a fresh optimizer returns 0; after
\* a step() in which a kernel set the register, a peek_overflow returns
\* nonzero and leaves the register as it is, and so does every peek_overflow
\* that follows one; the has_overflow that follows returns nonzero and zeroes
\* the register; the has_overflow or peek_overflow right after a
\* has_overflow returns 0.
C3_ReadsOfTheRegister ==
    [][ /\ (last.op = "construct" /\ last'.op = "peek_overflow") => last'.ret = 0
        /\ (/\ \/ (StepDone /\ KernelWrote)
               \/ (last.op = "peek_overflow" /\ last.ret # 0)
            /\ last'.op = "peek_overflow")
              => (last'.ret # 0 /\ overflow_buf' = overflow_buf)
        /\ (/\ \/ (StepDone /\ KernelWrote)
               \/ (last.op = "peek_overflow" /\ last.ret # 0)
            /\ last'.op = "has_overflow")
              => (last'.ret # 0 /\ overflow_buf' = 0)
        /\ (last.op = "has_overflow" /\ last'.op \in {"has_overflow", "peek_overflow"})
              => last'.ret = 0
      ]_vars

\* a has_overflow has returned nonzero
C3_Witness == last.op = "has_overflow" /\ last.ret # 0

\* C4 as claimed: a construction with use_mt and allow_undo always fails.
C4_BothFlagsAlwaysFail ==
    (last.op = "construct" /\ last.use_mt /\ last.allow_undo) =>
        (last.error # "none" /\ constructed = "failed")

\* C4, amended: a construction with use_mt and allow_undo fails exactly when
\* the multi-tensor launcher is available or amsgrad is requested; with the
\* launcher unavailable (and no amsgrad) it returns an optimizer in
\* per-parameter mode with undo enabled.
C4_BothFlagsFailWhenAvailable ==
    (last.op = "construct" /\ last.use_mt /\ last.allow_undo) =>
        /\ (last.available /\ ~last.amsgrad) => last.error = "AssertionError"
        /\ last.error # "none" <=> (last.available \/ last.amsgrad)
        /\ last.error # "none" => constructed = "failed"
        /\ last.error = "none" =>
              (constructed = "yes" /\ ~use_multi_tensor /\ allow_undo)

\* a construction with both flags was refused by the assertion
C4_Witness ==
    /\ last.op = "construct" /\ last.use_mt /\ last.allow_undo
    /\ last.available /\ last.error = "AssertionError"

\* C5: when step() raises the sparse-gradient error, every parameter whose
\* gradient is not sparse has the state it had before the call and no kernel
\* invocation was issued for it.
C5_SparseErrorLeavesOthersUntouched ==
    (StepDone /\ last.error = "RuntimeError") =>
        \A p \in DOMAIN state :
           \/ (GradientOf(p).t = "tensor" /\ GradientOf(p).sparse)
           \/ /\ state[p] = last.pre[p]
              /\ Calls("adam", p) = {} /\ Calls("adam_undo", p) = {}
              /\ ~InBatch(p)

\* C6: a step() zeroes the register once, first of all; when its forward
\* pass completes, the undo pass has run exactly if undo is enabled and a
\* forward kernel invocation of this call set the register, whatever the
\* register held before the call, and the register is nonzero exactly if a
\* kernel invocation of this call set it.
C6_ZeroedOnceUndoOnOwnOverflow ==
    StepDone =>
        /\ last.log[1].k = "zero" /\ Entries("zero") = {1}
        /\ last.error = "none" =>
              /\ Entries("undo") # {} <=> (allow_undo /\ KernelWrote)
              /\ Cardinality(Entries("undo")) <= 1
              /\ overflow_buf # 0 <=> KernelWrote

\* a step() that started with the register set, with undo enabled, issued
\* kernel invocations none of which set the register, and ran no undo pass
C6_Witness ==
    /\ StepReturned /\ allow_undo /\ last.pre_buf # 0
    /\ Entries("adam") # {} /\ Entries("undo") = {} /\ overflow_buf = 0

\* C7 as claimed: the register leaves 0 only by a kernel write of a step()
\* and returns to 0 only by has_overflow.
C7_OnlyKernelSetsOnlyHasOverflowClears ==
    [][ /\ (overflow_buf = 0 /\ overflow_buf' # 0) =>
              (last'.op = "step" /\ \E i \in DOMAIN last'.log : last'.log[i].wrote)
        /\ (overflow_buf # 0 /\ overflow_buf' = 0) => last'.op = "has_overflow"
      ]_vars

\* C7, amended: the register leaves 0 only by a kernel write of a step() or
\* by strided_check_finite, and returns to 0 only by has_overflow, by the
\* zeroing that starts a step(), or by strided_check_finite.
C7_RegisterTransitions ==
    [][ /\ (overflow_buf = 0 /\ overflow_buf' # 0) =>
              \/ (last'.op = "step" /\ \E i \in DOMAIN last'.log : last'.log[i].wrote)
              \/ last'.op = "strided_check_finite"
        /\ (overflow_buf # 0 /\ overflow_buf' = 0) =>
              last'.op \in {"has_overflow", "step", "strided_check_finite"}
      ]_vars

\* a step() that found the register set has left it zero
C7_Witness == StepDone /\ last.pre_buf # 0 /\ overflow_buf = 0

\* The kernel invocations of the forward pass of a record, in order, each
\* with its arguments.
IsForwardKernel(x) == x.k \in {"adam", "adam_mt"}
Unwritten(x) == [x EXCEPT !.wrote = FALSE]
KernelSeq(log) ==
    LET ks == SelectSeq(log, IsForwardKernel)
    IN  [i \in DOMAIN ks |-> Unwritten(ks[i])]

\* C8: the gradients that a step() call took from the parameters (grads
\* absent) give the same forward kernel invocations, with the same
\* (parameter, gradient) pairs and the same outcome, when they are supplied
\* as a nested list with one inner list per group and, to an optimizer of a
\* single group (the one a flat list stands for), as a flat list.
C8_ShapesAgree ==
    (StepDone /\ last.grads.t = "None" /\ ~amp_stash.present) =>
        LET nothing == Attached(AllOf("None"))
            asNested == StepRunFrom(last.pre, last.closure, Nested(last.attached),
                                    last.output_params, last.scale,
                                    last.grad_norms, nothing, {})
            asFlat == StepRunFrom(last.pre, last.closure, Flat(last.attached),
                                  last.output_params, last.scale,
                                  last.grad_norms, nothing, {})
        IN  /\ KernelSeq(asNested.log) = KernelSeq(last.log)
            /\ asNested.err = last.error
            /\ Len(param_groups) = 1 =>
                  /\ KernelSeq(asFlat.log) = KernelSeq(last.log)
                  /\ asFlat.err = last.error

\* a step() of a single group took two attached gradients and issued two
\* kernel invocations
C8_Witness ==
    /\ StepDone /\ last.grads.t = "None" /\ Len(param_groups) = 1
    /\ Cardinality(Entries("adam")) = 2

\* An argument of step() that does not match the optimizer's structure: a
\* flat list given to more than one group or of another length than the
\* group, a nested list with another number of inner lists than groups or
\* with an inner list of another length than its group.
Misshaped(a) ==
    /\ a.t = "list"
    /\ \/ a.items = <<>>
       \/ /\ IsFlat(a)
          /\ \/ Len(param_groups) > 1
             \/ Len(a.items) # Len(param_groups[1].params)
       \/ /\ IsNested(a)
          /\ \/ Len(a.items) # Len(param_groups)
             \/ \E g \in 1..Min(Len(a.items), Len(param_groups)) :
                   /\ a.items[g].t = "list"
                   /\ Len(a.items[g].items) # Len(param_groups[g].params)

\* C9: a step() whose gradients or output buffers do not match the
\* optimizer's structure fails, and has updated no parameter.
C9_MisshapedInputIsRejected ==
    (StepDone /\ (Misshaped(last.grads) \/ Misshaped(last.output_params))) =>
        /\ last.error # "none"
        /\ state = last.pre
        /\ Entries("adam") = {} /\ Entries("adam_mt") = {}

\* C10: the combined scale of every kernel invocation of a step() is the
\* base scale when its group's max_grad_norm <= 0, whatever the gradient
\* norm; when max_grad_norm > 0 it is the base scale if
\* clip = ((grad_norm / scale) + 1e-6) / max_grad_norm is at most 1, and
\* clip * scale if clip > 1; each invocation has the scale of its own group.
C10_CombinedScale ==
    StepDone =>
        \A i \in Entries("adam") \cup Entries("adam_undo") \cup Entries("adam_mt") :
           LET cs == last.log[i].combined_scale
               g == last.log[i].hyper
               mgn == param_groups[g].max_grad_norm
               s == last.scale
               gn == last.grad_norms.items[g].id
               num == gn * s.d * TinyDen + s.n
               den == s.n * TinyDen * mgn
           IN  IF mgn <= 0 THEN cs = s
               ELSE IF num <= den THEN cs = s
               ELSE cs = Rat(num, s.d * TinyDen * mgn)

\* a step() whose first group was clipped and whose second group was not
C10_Witness ==
    /\ StepDone
    /\ \E i, j \in Entries("adam") :
          /\ i < j
          /\ last.log[i].combined_scale # last.scale
          /\ last.log[j].combined_scale = last.scale
          /\ param_groups[last.log[j].hyper].max_grad_norm > 0

\* C11: when a step() returns, in per-parameter mode its forward pass has
\* issued exactly one adam invocation for every parameter with a gradient
\* (supplied or attached), none for the others, and no adam_mt; in batched
\* mode it has issued exactly one adam_mt invocation for every group, whose
\* lists hold that group's parameters, and no adam or adam_undo.
C11_OneInvocationPerUnit ==
    StepReturned =>
        IF use_multi_tensor
        THEN /\ Entries("adam") = {} /\ Entries("adam_undo") = {}
             /\ \A g \in DOMAIN param_groups :
                   /\ Cardinality({i \in Entries("adam_mt") : last.log[i].hyper = g}) = 1
                   /\ \A i \in Entries("adam_mt") :
                         last.log[i].hyper = g =>
                            \A p \in Range(param_groups[g].params) :
                               GradientOf(p).t # "None" => InBatch(p)
        ELSE /\ Entries("adam_mt") = {}
             /\ \A p \in DOMAIN state :
                   Cardinality(Calls("adam", p)) =
                      (IF GradientOf(p).t # "None" THEN 1 ELSE 0)

(* ------------------- the undo pass and the closure -------------------- *)

\* A per-parameter optimizer, with undo or without, stepped on attached
\* gradients, with or without a closure, or on a one-shot generator of
\* gradients, which yields one gradient per parameter of the optimizer or
\* one more (more than the first group has parameters when there are several
\* groups); the wrapper may attach a stash that holds a nested list of
\* gradients, or none, and a scale of 2, and the caller of a stashed
\* optimizer passes no gradients of its own. The kernels of a step find a
\* non-finite value in all of their parameters or in none.
GenGrads ==
    {Generator([k \in 1..n |-> IF w[k] THEN Tensor(-k, FALSE) ELSE NoneT]) :
        n \in Len(state)..(Len(state) + 1), w \in [1..(Len(state) + 1) -> BOOLEAN]}
UndoGradCases ==
    {[attached |-> Attached(a), grads |-> NoneT, closure |-> c] :
        a \in [DOMAIN state -> {"None", "dense"}], c \in BOOLEAN}
    \cup {[attached |-> Attached(AllOf("None")), grads |-> g, closure |-> FALSE] :
            g \in IF amp_stash.present THEN {} ELSE GenGrads}

NextUndo ==
    \/ \E shape \in GroupShapes, undo \in BOOLEAN :
          Construct(shape, NoClip(shape), FALSE, undo, FALSE, TRUE)
    \/ PeekOverflow
    \/ \E g \in {NoneT, Nested(Supplied(AllOf("dense")))} :
          SetAmpStash(g, NoneT, RatInt(2), NoneT)
    \/ /\ CallerReady
       /\ \E gc \in UndoGradCases :
          \E targets \in {KernelTargets(gc.closure, gc.grads, NoneT, RatInt(1),
                                        NoneT, gc.attached)} :
             \E ovf \in {{}, targets} :
                Step(gc.closure, gc.grads, NoneT, RatInt(1), NoneT, gc.attached, ovf)

SpecUndo == Init /\ [][NextUndo]_vars

\* the undo pass of the last step() call ran
UndoRan == StepDone /\ Entries("undo") # {}

\* C12: a step() given a closure evaluates it exactly once, before every
\* state initialisation and kernel invocation, and its forward pass returns
\* the loss; a step() given none evaluates none; the undo pass, when it
\* runs, evaluates no closure and returns no loss.
C12_ClosureOnceNoLossFromUndo ==
    StepDone =>
        /\ Cardinality(Entries("closure")) = (IF last.closure THEN 1 ELSE 0)
        /\ \A i \in Entries("closure") :
              /\ \A j \in Entries("undo") : i < j
              /\ \A j \in Entries("state_init") \cup Entries("adam")
                          \cup Entries("adam_mt") \cup Entries("adam_undo") : i < j
        /\ last.error = "none" =>
              /\ last.rets[1] = (IF last.closure THEN "loss" ELSE "None")
              /\ Len(last.rets) = (IF Entries("undo") # {} THEN 2 ELSE 1)
              /\ UndoRan => last.rets[2] = "None"

\* a step() given a closure has run its undo pass to the end
C12_Witness ==
    /\ UndoRan /\ last.closure /\ last.error = "none"
    /\ Entries("adam_undo") # {}


\* the parameters the forward pass of the last step() call stepped: those it
\* handed to a kernel, alone or in a batch
Stepped(p) == Calls("adam", p) # {} \/ InBatch(p)

\* C13: with undo disabled, a step() in which a kernel invocation set the
\* overflow register ends as the same call does when no kernel sets it, with
\* the same outcome and the same per-parameter state: the overflow raises
\* no error and rolls nothing back. No undo pass ran, no adam_undo was
\* issued, the register is nonzero for the caller to read, and when the
\* call returns the counter of every parameter it stepped is one higher
\* than before the call and the state of the others is unchanged.
C13_NoUndoLeavesOverflowToCaller ==
    (StepDone /\ ~allow_undo /\ KernelWrote) =>
        LET quiet == StepRunFrom(last.pre, last.closure, last.grads,
                                 last.output_params, last.scale, last.grad_norms,
                                 last.attached, {})
        IN  /\ last.error = quiet.err
            /\ state = quiet.state
            /\ Entries("undo") = {} /\ Entries("adam_undo") = {}
            /\ overflow_buf # 0
            /\ last.error = "none" =>
                  \A p \in DOMAIN state :
                     IF Stepped(p) THEN state[p].step = last.pre[p].step + 1
                     ELSE state[p] = last.pre[p]

\* a step() without undo has returned with the register set by one of two
\* kernel invocations
C13_Witness ==
    /\ StepReturned /\ ~allow_undo /\ KernelWrote /\ overflow_buf # 0
    /\ \E i, j \in Entries("adam") : last.log[i].wrote /\ ~last.log[j].wrote


\* C14: when the undo pass of a step() has run, every adam_undo invocation
\* is matched by a forward adam invocation of the same call for the same
\* parameter, with the same gradient, hyperparameters, betas, combined scale
\* and step value, which is the parameter's counter after the forward
\* increment.
C14_UndoGetsForwardArguments ==
    UndoRan =>
        \A i \in Entries("adam_undo") :
           \E j \in Calls("adam", last.log[i].p) :
              /\ j < i
              /\ last.log[j].grad = last.log[i].grad
              /\ last.log[j].hyper = last.log[i].hyper
              /\ last.log[j].betas = last.log[i].betas
              /\ last.log[j].combined_scale = last.log[i].combined_scale
              /\ last.log[j].step = last.log[i].step
              /\ last.log[i].step = last.pre[last.log[i].p].step + 1


\* The parameters of the entries of kind k of a record, in order.
IsAdam(x) == x.k = "adam"
IsAdamUndo(x) == x.k = "adam_undo"
ParamsOf(log) == [i \in DOMAIN log |-> log[i].p]

\* C15: when the undo pass of a step() has run, it has issued adam_undo for
\* the parameters the forward pass issued adam for, in the same order, and
\* for no other, whatever the form of the gradients argument.
C15_UndoVisitsWhatForwardVisited ==
    (UndoRan /\ last.error = "none") =>
        ParamsOf(SelectSeq(last.log, IsAdamUndo)) = ParamsOf(SelectSeq(last.log, IsAdam))


(* --------------------------- batched mode ----------------------------- *)

\* A batched-mode optimizer stepped on attached gradients, with output
\* buffers for all, some or none of its parameters, as a nested list. The
\* kernels of a step find a non-finite value in all of their parameters or
\* in none.
OutputCases ==
    {NoneT} \cup {Nested(OutBufs(has)) : has \in [DOMAIN state -> BOOLEAN]}

NextBatched ==
    \/ \E shape \in GroupShapes :
          Construct(shape, NoClip(shape), TRUE, FALSE, FALSE, TRUE)
    \/ PeekOverflow
    \/ /\ CallerReady
       /\ \E a \in [DOMAIN state -> {"None", "dense"}], out \in OutputCases :
          \E targets \in {KernelTargets(FALSE, NoneT, out, RatInt(1), NoneT,
                                        Attached(a))} :
             \E ovf \in {{}, targets} :
                Step(FALSE, NoneT, out, RatInt(1), NoneT, Attached(a), ovf)

SpecBatched == Init /\ [][NextBatched]_vars

\* the output buffer the last step() call was given for parameter p
OutputOf(p) == SuppliedFor(OutputsOfCall, p)
\* the parameters of group g with a gradient, in the order of the group
HasGradient(p) == GradientOf(p).t # "None"
WithGradient(g) == SelectSeq(param_groups[g].params, HasGradient)

\* C16: the tensor lists of every adam_mt invocation of a step() are
\* parallel: each has one element per parameter of the group that has a
\* gradient, and the elements at one index are that parameter's data, its
\* two moment buffers, its gradient and, when output buffers are supplied,
\* its output buffer.
C16_TensorListsParallel ==
    StepDone =>
        \A i \in Entries("adam_mt") :
           LET ls == last.log[i].lists
               ps == WithGradient(last.log[i].hyper)
           IN  /\ \A l \in DOMAIN ls : Len(ls[l]) = Len(ps)
               /\ \A l \in DOMAIN ls : \A k \in DOMAIN ls[l] :
                     k <= Len(ps) =>
                        ls[l][k] = CASE l = 1 -> ParamData(ps[k])
                                     [] l = 2 -> ExpAvg(ps[k])
                                     [] l = 3 -> ExpAvgSq(ps[k])
                                     [] l = 4 -> GradientOf(ps[k])
                                     [] OTHER -> OutputOf(ps[k])


\* C17: every adam_mt invocation of a step() is handed the betas of its own
\* group and a step value read from the state of a parameter of its own
\* group, which is the counter, after the increment, of every parameter in
\* its tensor lists.
C17_BatchedStepAndBetasOfOwnGroup ==
    StepDone =>
        \A i \in Entries("adam_mt") :
           LET x == last.log[i]
               g == x.hyper
           IN  /\ x.betas = param_groups[g].betas
               /\ x.p \in Range(param_groups[g].params)
               /\ \A n \in DOMAIN x.lists[1] :
                     x.step = state[x.lists[1][n].id].step


(* ------------------------- per-parameter state ------------------------ *)

\* the state initialisations of parameter p in the last step() call
Inits(p) == {i \in Entries("state_init") : last.log[i].p = p}
IsDense(g) == g.t = "tensor" /\ ~g.sparse

\* C18: in every step() a parameter's state is initialised at most once,
\* only if it had no state and has a non-absent, non-sparse gradient in that
\* call, and in the forward pass; a parameter without state that has such a
\* gradient is initialised in that call, the first that gives it one; a
\* state that exists is kept and not initialised again; a parameter without
\* state and without gradient still has none after the call.
C18_StateCreatedOnceAtFirstGradient ==
    StepDone =>
        \A p \in DOMAIN state :
           /\ Cardinality(Inits(p)) <= 1
           /\ Inits(p) # {} =>
                 /\ ~last.pre[p].exists /\ IsDense(GradientOf(p))
                 /\ \A i \in Inits(p) : \A j \in Entries("undo") : i < j
           /\ (last.error = "none" /\ ~last.pre[p].exists /\ IsDense(GradientOf(p)))
                 => Inits(p) # {}
           /\ last.pre[p].exists => (Inits(p) = {} /\ state[p].exists)
           /\ (~last.pre[p].exists /\ GradientOf(p).t = "None") => ~state[p].exists


\* C19: when a step() returns, every existing step counter is at least 0 and
\* at least its value before the call; in the call every parameter received
\* at most one adam_undo invocation, each after an adam invocation for the
\* same parameter, and no counter is below its value before the call.
C19_CountersNeverFallBack ==
    StepReturned =>
        \A p \in DOMAIN state :
           /\ state[p].exists => (state[p].step >= 0 /\ state[p].step >= last.pre[p].step)
           /\ Cardinality(Calls("adam_undo", p)) <= 1
           /\ \A i \in Calls("adam_undo", p) : \E j \in Calls("adam", p) : j < i


\* C20: an optimizer that was constructed is not in batched mode with undo
\* enabled, and no step() call fails on an assertion of the undo pass.
C20_BatchedExcludesUndo ==
    /\ constructed = "yes" => ~(use_multi_tensor /\ allow_undo)
    /\ StepDone => last.error # "AssertionError"

\* a batched step() in which the kernel set the register has returned
C20_Witness ==
    /\ StepReturned /\ use_multi_tensor /\ KernelWrote
    /\ Entries("adam_mt") # {} /\ Entries("undo") = {}

====
